---- MODULE Spec2Model ----
(***************************************************************************)
(* GAIL reward provider (gail_reward_provider.py): GAILRewardProvider and  *)
(* its DiscriminatorNetwork, as a state machine.                           *)
(*                                                                         *)
(* Floats are fixed-point integers with Scale units per 1.0.  Network      *)
(* weights are version numbers (one increment per optimizer write); the    *)
(* outputs of the networks are symbolic terms over their inputs.  update   *)
(* is modelled statement by statement with pc as the position inside it;   *)
(* evaluate is one step.  A statement of update that has not yet run may   *)
(* raise, which ends the call.                                             *)
(***************************************************************************)
EXTENDS Integers, Sequences, FiniteSets, TLC

\* ---------------------------------------------------------------- bounds
MaxBatch == 2
MaxSteps == 2
MaxBeta == 600

\* ------------------------------------------------------------- numerics
Scale == 10 ^ 6
Mul(a, b) == (a * b) \div Scale
Max(a, b) == IF a >= b THEN a ELSE b

None == << >>
Some(v) == << v >>
Val(o) == o[1]

\* class attributes of DiscriminatorNetwork, in Scale units where fractional
gradient_penalty_weight == 10
alpha == 500
mutual_information == 500000
initial_beta == 0

\* values kl_loss can take (it is a sum of terms that are each >= 0)
KLValues == {0, 500000, 900000, 1300000}

\* torch.rand draws, as numerators over EpsDen
EpsDen == 2
EpsValues == {0, 1}

\* ---------------------------------------------------------------- data
Exp(o, a, d) == [obs |-> o, action |-> a, done |-> d]
PolicyExperiences == {Exp(0, 0, 0), Exp(1, 1, 1)}
PolicyBatches == UNION {[1..n -> PolicyExperiences] : n \in 1..MaxBatch}
DemoBuffer == << Exp(2, 3, 1), Exp(5, 1, 0), Exp(3, 2, 1), Exp(4, 0, 0) >>

VARIABLES
    use_vail, use_actions,      \* settings, fixed at construction
    weights,                    \* trainable parameters: name -> version
    beta,                       \* the VAIL coefficient, None without VAIL
    grads,                      \* .grad of every parameter handed to Adam
    adam_steps,                 \* optimizer state: steps applied
    pc,                         \* position inside update, "idle" outside
    mini_batch, expert_batch,   \* update's batches
    loss, kl_loss,              \* compute_loss's results
    encoder_input,              \* compute_gradient_magnitude's interpolated input
    returned,                   \* what the last call handed to the caller
    pre                         \* the parameter state when the last update was called

vars == << use_vail, use_actions, weights, beta, grads, adam_steps, pc,
           mini_batch, expert_batch, loss, kl_loss, encoder_input,
           returned, pre >>

\* ------------------------------------------------------ construction
TrainableNames(vail) ==
    {"state_encoder", "encoder", "estimator"}
        \cup (IF vail THEN {"z_mu_layer", "z_sigma"} ELSE {})

ParamNames(vail) == TrainableNames(vail) \cup (IF vail THEN {"beta"} ELSE {})

requires_grad(p) == p # "beta"

Persistent == [weights |-> weights, beta |-> beta, adam_steps |-> adam_steps]

Init ==
    /\ use_vail \in BOOLEAN
    /\ use_actions \in BOOLEAN
    /\ weights = [p \in TrainableNames(use_vail) |-> 0]
    /\ beta = IF use_vail THEN Some(initial_beta) ELSE None
    /\ grads = [p \in ParamNames(use_vail) |-> "None"]
    /\ adam_steps = 0
    /\ pc = "idle"
    /\ mini_batch = None
    /\ expert_batch = None
    /\ loss = None
    /\ kl_loss = None
    /\ encoder_input = None
    /\ returned = [kind |-> "none"]
    /\ pre = [weights |-> weights, beta |-> beta, adam_steps |-> 0]

\* --------------------------------------------------- collaborators
\* AgentBuffer.sample_mini_batch(batch_size, sequence_length = 1): batch_size
\* experiences drawn from the buffer without replacement.
sample_mini_batch(buffer, batch_size) ==
    {[i \in 1..batch_size |-> buffer[idx[i]]] :
        idx \in {f \in [1..batch_size -> 1..Len(buffer)] :
                    \A i, j \in 1..batch_size : i # j => f[i] # f[j]}}

\* NetworkBody.forward on one observation: a function of it and the weights
Hidden(obs) == 2 * obs + weights["state_encoder"]

\* ActionFlattener.forward on a continuous action
Flatten(action) == action

\* ---------------------------------------------------- DiscriminatorNetwork
get_action_input(batch) == [i \in DOMAIN batch |-> Flatten(batch[i].action)]

get_state_encoding(batch) == [i \in DOMAIN batch |-> Hidden(batch[i].obs)]

get_dones(batch) == [i \in DOMAIN batch |-> batch[i].done]

\* compute_estimate: one symbolic estimate per experience
compute_estimate(batch, use_vail_noise) ==
    [i \in DOMAIN batch |->
        [x |-> IF use_actions
                 THEN << get_state_encoding(batch)[i], get_action_input(batch)[i],
                         get_dones(batch)[i] >>
                 ELSE << get_state_encoding(batch)[i] >>,
         w |-> weights,
         noise |-> use_vail /\ use_vail_noise]]

\* line 203
VailLossNewBeta(b, kl) ==
    Mul(Max(b + Mul(alpha, kl - mutual_information), 0), kl - mutual_information)
VailLoss(b, kl) == Mul(b, kl - mutual_information)

\* lines 205-208
NewBetaNoClamp(b, kl) == b + Mul(alpha, kl - mutual_information)
NewBetaNoTarget(b, kl) == Max(b + Mul(alpha, kl), 0)
NewBeta(b, kl) == Max(b + Mul(alpha, kl - mutual_information), 0)

\* line 190
KLInitZero == Some(0)
KLInit == None

\* line 226 and lines 237-239, scaled by EpsDen
Lerp(eps, policy_x, expert_x) == eps * policy_x + (EpsDen - eps) * expert_x

\* line 229
ExpertActionSource(policy_batch, expert_b) == policy_batch

\* the interpolated inputs compute_gradient_magnitude can build
InterpolatedInputs(policy_batch, expert_b) ==
    LET n == Len(policy_batch)
        policy_obs == get_state_encoding(policy_batch)
        expert_obs == get_state_encoding(expert_b)
        policy_action == get_action_input(policy_batch)
        expert_action == get_action_input(ExpertActionSource(policy_batch, expert_b))
        policy_dones == get_dones(policy_batch)
        expert_dones == get_dones(expert_b)
    IN IF use_actions
       THEN {[i \in 1..n |->
                << Lerp(oe[i], policy_obs[i], expert_obs[i]),
                   Lerp(ae[i], policy_action[i], expert_action[i]),
                   Lerp(de[i], policy_dones[i], expert_dones[i]) >>] :
              oe \in [1..n -> EpsValues], ae \in [1..n -> EpsValues],
              de \in [1..n -> EpsValues]}
       ELSE {[i \in 1..n |-> << Lerp(oe[i], policy_obs[i], expert_obs[i]) >>] :
              oe \in [1..n -> EpsValues]}

\* ----------------------------------------------------------- evaluate
\* lines 29-43
Evaluate ==
    /\ pc = "idle"
    /\ \E mb \in PolicyBatches :
          returned' = [kind |-> "rewards",
                       value |-> [i \in DOMAIN mb |->
                                    [neg_log_one_minus |->
                                        compute_estimate(mb, FALSE)[i]]]]
    /\ UNCHANGED << use_vail, use_actions, weights, beta, grads, adam_steps, pc,
                    mini_batch, expert_batch, loss, kl_loss, encoder_input, pre >>

\* ------------------------------------------------------------- update
\* line 47
RequestedFixed(mb) == 1
Requested(mb) == Len(mb)

\* lines 45-48
UpdateSample ==
    /\ pc = "idle"
    /\ adam_steps < MaxSteps
    /\ \E mb \in PolicyBatches :
          /\ mini_batch' = Some(mb)
          /\ \E eb \in sample_mini_batch(DemoBuffer, Requested(mb)) :
                expert_batch' = Some(eb)
    /\ pc' = "sampled"
    /\ returned' = [kind |-> "none"]
    /\ pre' = Persistent
    /\ UNCHANGED << use_vail, use_actions, weights, beta, grads, adam_steps,
                    loss, kl_loss, encoder_input >>

\* lines 180-190
ComputeLossEstimates ==
    /\ pc = "sampled"
    /\ Len(Val(mini_batch)) = Len(Val(expert_batch))
    /\ loss' = Some([gail |-> TRUE, vail |-> None, gp |-> FALSE])
    /\ kl_loss' = KLInit
    /\ pc' = "estimated"
    /\ UNCHANGED << use_vail, use_actions, weights, beta, grads, adam_steps,
                    mini_batch, expert_batch, encoder_input, returned, pre >>

\* lines 191-209
ComputeLossVail ==
    /\ pc = "estimated"
    /\ use_vail
    /\ \E kl \in KLValues :
          /\ NewBeta(Val(beta), kl) <= MaxBeta
          /\ kl_loss' = Some(kl)
          /\ loss' = Some([Val(loss) EXCEPT !.vail = Some(VailLoss(Val(beta), kl))])
          /\ beta' = Some(NewBeta(Val(beta), kl))
    /\ pc' = "vail_done"
    /\ UNCHANGED << use_vail, use_actions, weights, grads, adam_steps,
                    mini_batch, expert_batch, encoder_input, returned, pre >>

\* lines 210-214 with 216-254
ComputeGradientMagnitude ==
    /\ \/ pc = "estimated" /\ ~use_vail
       \/ pc = "vail_done"
    /\ gradient_penalty_weight > 0
    /\ Len(Val(mini_batch)) = Len(Val(expert_batch))
    /\ \E x \in InterpolatedInputs(Val(mini_batch), Val(expert_batch)) :
          encoder_input' = Some(x)
    /\ loss' = Some([Val(loss) EXCEPT !.gp = TRUE])
    /\ pc' = "loss_done"
    /\ UNCHANGED << use_vail, use_actions, weights, beta, grads, adam_steps,
                    mini_batch, expert_batch, kl_loss, returned, pre >>

\* Adam skips a parameter whose .grad is None
AnyParam(p) == TRUE
HasGrad(p) == grads[p] # "None"

\* torch.optim.Adam.step over the parameter list of line 26
StepParams ==
    /\ weights' = [p \in DOMAIN weights |->
                     IF HasGrad(p) THEN weights[p] + 1 ELSE weights[p]]
    /\ beta' = IF use_vail /\ HasGrad("beta") THEN Some(Val(beta) + 1) ELSE beta
    /\ adam_steps' = adam_steps + 1

\* line 52
ZeroGradAfterStep ==
    /\ pc = "loss_done"
    /\ StepParams
    /\ grads' = [p \in DOMAIN grads |-> IF grads[p] = "None" THEN "None" ELSE "zero"]
    /\ encoder_input' = None
    /\ pc' = "zeroed"
    /\ UNCHANGED << use_vail, use_actions, mini_batch, expert_batch, loss, kl_loss,
                    returned, pre >>
ZeroGrad ==
    /\ pc = "loss_done"
    /\ grads' = [p \in DOMAIN grads |-> IF grads[p] = "None" THEN "None" ELSE "zero"]
    /\ encoder_input' = None
    /\ pc' = "zeroed"
    /\ UNCHANGED << use_vail, use_actions, weights, beta, adam_steps,
                    mini_batch, expert_batch, loss, kl_loss, returned, pre >>

\* line 53
BackwardAssignsBeta ==
    /\ pc = "zeroed"
    /\ grads' = [p \in DOMAIN grads |-> IF requires_grad(p) THEN "grad" ELSE grads[p]]
    /\ beta' = IF use_vail THEN Some(NewBeta(Val(beta), Val(kl_loss))) ELSE beta
    /\ pc' = "backward_done"
    /\ UNCHANGED << use_vail, use_actions, weights, adam_steps,
                    mini_batch, expert_batch, loss, kl_loss, encoder_input,
                    returned, pre >>
Backward ==
    /\ pc = "zeroed"
    /\ grads' = [p \in DOMAIN grads |-> IF requires_grad(p) THEN "grad" ELSE grads[p]]
    /\ pc' = "backward_done"
    /\ UNCHANGED << use_vail, use_actions, weights, beta, adam_steps,
                    mini_batch, expert_batch, loss, kl_loss, encoder_input,
                    returned, pre >>

\* line 54
OptimizerStep ==
    /\ pc = "backward_done"
    /\ StepParams
    /\ pc' = "stepped"
    /\ UNCHANGED << use_vail, use_actions, grads, mini_batch, expert_batch, loss,
                    kl_loss, encoder_input, returned, pre >>

\* lines 55-65
BaseStats ==
    [k \in {"Losses/GAIL Discriminator Loss", "Policy/GAIL Policy Estimate",
            "Policy/GAIL Expert Estimate"} |->
        IF k = "Losses/GAIL Discriminator Loss" THEN Val(loss)
        ELSE IF k = "Policy/GAIL Policy Estimate"
             THEN [mean_of |-> compute_estimate(Val(mini_batch), TRUE)]
             ELSE [mean_of |-> compute_estimate(Val(expert_batch), TRUE)]]

VailStats ==
    [k \in {"Policy/GAIL Beta", "Losses/GAIL KL Loss"} |->
        IF k = "Policy/GAIL Beta" THEN beta ELSE kl_loss]

StatsDictAlwaysVail == BaseStats @@ VailStats
StatsDict == IF use_vail THEN BaseStats @@ VailStats ELSE BaseStats

UpdateReturn ==
    /\ pc = "stepped"
    /\ returned' = [kind |-> "stats", value |-> StatsDict]
    /\ pc' = "idle"
    /\ mini_batch' = None
    /\ expert_batch' = None
    /\ loss' = None
    /\ kl_loss' = None
    /\ UNCHANGED << use_vail, use_actions, weights, beta, grads, adam_steps,
                    encoder_input, pre >>

\* the statement about to run raises and update is left through the exception
RaisePoints == {"sampled", "estimated", "vail_done", "loss_done", "zeroed",
                "backward_done"}

Raise ==
    /\ pc \in RaisePoints
    /\ returned' = [kind |-> "exception", value |-> pc]
    /\ pc' = "idle"
    /\ mini_batch' = None
    /\ expert_batch' = None
    /\ loss' = None
    /\ kl_loss' = None
    /\ encoder_input' = None
    /\ UNCHANGED << use_vail, use_actions, weights, beta, grads, adam_steps, pre >>

Next ==
    \/ Evaluate
    \/ UpdateSample
    \/ ComputeLossEstimates
    \/ ComputeLossVail
    \/ ComputeGradientMagnitude
    \/ ZeroGrad
    \/ Backward
    \/ OptimizerStep
    \/ UpdateReturn
    \/ Raise

Spec == Init /\ [][Next]_vars

\* ================================================================ claims
AfterComputeLoss == {"loss_done", "zeroed", "backward_done", "stepped"}
AfterBetaAssignment == {"vail_done"} \cup AfterComputeLoss

\* C1: with use_vail, beta is >= 0 in every reachable state, whatever the
\* sequence of KL values (the update is clamped at 0).
C1_BetaNonNegative == use_vail => Val(beta) >= 0

\* a KL below the target drove a positive beta to the clamp
C1_Witness ==
    /\ use_vail
    /\ pc = "vail_done"
    /\ Val(kl_loss) < 500000
    /\ Val(pre.beta) > 0
    /\ Val(beta) = 0

\* C2 (as stated): when update raises, weights, z_sigma, beta and the
\* optimizer state are exactly what they were when update was called.
C2_Original == returned.kind = "exception" => Persistent = pre

\* C2 (amended): when a statement of update up to and including the
\* optimizer step's call raises, the weights, z_sigma and the optimizer
\* state are what they were when update was called; beta is too when VAIL is
\* off or the statement that raised precedes compute_loss's assignment to
\* beta (sampling, the estimates, the KL term).
C2_Amended ==
    returned.kind = "exception" =>
        /\ weights = pre.weights
        /\ adam_steps = pre.adam_steps
        /\ (~use_vail \/ returned.value \in {"sampled", "estimated"})
              => beta = pre.beta

\* compute_gradient_magnitude raised in a VAIL update after earlier updates
C2_Witness ==
    /\ returned.kind = "exception"
    /\ returned.value = "vail_done"
    /\ adam_steps > 0
    /\ weights = pre.weights
    /\ beta # pre.beta

\* C3 (as stated): every change to the weights, z_sigma or beta is made by
\* the optimizer step inside update.
C3_Original ==
    [][(weights' # weights \/ beta' # beta)
          => (pc = "backward_done" /\ pc' = "stepped")]_vars

\* C3 (amended): every change to the encoder, latent-projection and
\* estimator weights and to z_sigma is made by the optimizer step inside
\* update; beta is written only by compute_loss's direct assignment, and
\* neither the optimizer step nor evaluate, compute_estimate or
\* compute_gradient_magnitude changes it.
C3_Amended ==
    [][/\ weights' # weights => (pc = "backward_done" /\ pc' = "stepped")
       /\ beta' # beta => (pc = "estimated" /\ pc' = "vail_done")
       /\ (pc = "backward_done" /\ pc' = "stepped") => beta' = beta]_vars

\* the optimizer step has written the weights of a VAIL network whose beta
\* compute_loss had changed
C3_Witness ==
    /\ use_vail
    /\ pc = "stepped"
    /\ weights # pre.weights
    /\ beta # pre.beta

\* C4: with use_vail, beta is 0 after construction and differs between two
\* consecutive states only across compute_loss inside an update whose
\* (KL - 0.5) is nonzero; evaluate and updates with KL = 0.5 leave it alone.
C4_BetaChangesOnlyOnNonzeroGap ==
    /\ use_vail => beta = Some(0)
    /\ [][beta' # beta =>
             /\ use_vail
             /\ pc = "estimated" /\ pc' = "vail_done"
             /\ Val(kl_loss') - 500000 # 0]_vars

\* an update with KL = 0.5 left a positive beta as it was
C4_Witness ==
    /\ use_vail
    /\ pc = "stepped"
    /\ kl_loss = Some(500000)
    /\ Val(beta) > 0
    /\ beta = pre.beta

\* C5: the mapping update returns has the three GAIL keys always, the two
\* VAIL keys exactly when use_vail, and no other key.
C5_StatsKeys ==
    returned.kind = "stats" =>
        DOMAIN returned.value =
            {"Losses/GAIL Discriminator Loss", "Policy/GAIL Policy Estimate",
             "Policy/GAIL Expert Estimate"}
            \cup (IF use_vail THEN {"Policy/GAIL Beta", "Losses/GAIL KL Loss"}
                  ELSE {})

\* update returned from a network without VAIL
C5_Witness ==
    /\ returned.kind = "stats"
    /\ ~use_vail
    /\ Cardinality(DOMAIN returned.value) = 3

\* C6: the KL value compute_loss returns is present exactly when use_vail;
\* without VAIL it is None, no vail term enters the loss and there is no beta.
C6_KLPresentIffVail ==
    pc \in AfterComputeLoss =>
        /\ (kl_loss # None) <=> use_vail
        /\ ~use_vail => (beta = None /\ Val(loss).vail = None)

\* compute_loss returned in a network without VAIL
C6_Witness ==
    /\ pc = "loss_done"
    /\ ~use_vail
    /\ kl_loss = None
    /\ Val(loss).gp

\* C7: the expert batch of an update has as many experiences as the policy
\* batch, so compute_loss and compute_gradient_magnitude get equal sizes.
C7_EqualBatchSizes ==
    pc # "idle" => Len(Val(expert_batch)) = Len(Val(mini_batch))

\* both batches of more than one experience went through compute_loss
C7_Witness ==
    /\ pc = "loss_done"
    /\ Len(Val(mini_batch)) > 1
    /\ Len(Val(expert_batch)) = Len(Val(mini_batch))

\* C8 (as stated): within an update, beta gets its new value after the
\* backward pass.
C8_Original ==
    [][beta' # beta => pc \in {"backward_done", "stepped"}]_vars

\* C8 (amended): within an update with use_vail, beta gets its new value
\* inside compute_loss, before zero_grad and the backward pass; the backward
\* pass and the optimizer step leave that value in place.
C8_Amended ==
    (use_vail /\ pc \in AfterBetaAssignment) =>
        beta = Some(NewBeta(Val(pre.beta), Val(kl_loss)))

\* the backward pass has run and beta holds the value compute_loss gave it
C8_Witness ==
    /\ use_vail
    /\ pc = "backward_done"
    /\ beta # pre.beta

\* C9: compute_loss replaces beta by max(0, beta_old + 0.0005*(kl - 0.5)),
\* the vail term of the loss is beta_old*(kl - 0.5), and the beta statistic
\* update returns is the beta after that replacement.
C9_BetaRule ==
    [][/\ (pc = "estimated" /\ pc' = "vail_done") =>
            /\ Val(beta') =
                 Max(0, Val(beta) + (500 * (Val(kl_loss') - 500000)) \div 1000000)
            /\ Val(Val(loss').vail) =
                 (Val(beta) * (Val(kl_loss') - 500000)) \div 1000000
       /\ (use_vail /\ pc = "stepped" /\ pc' = "idle") =>
            /\ returned'.value["Policy/GAIL Beta"] = beta'
            /\ Val(beta') =
                 Max(0, Val(pre.beta) + (500 * (Val(kl_loss) - 500000)) \div 1000000)
            /\ Val(returned'.value["Losses/GAIL Discriminator Loss"].vail) =
                 (Val(pre.beta) * (Val(kl_loss) - 500000)) \div 1000000]_vars

\* update returned after compute_loss moved a positive beta
C9_Witness ==
    /\ use_vail
    /\ returned.kind = "stats"
    /\ Val(pre.beta) > 0
    /\ beta # pre.beta
    /\ returned.value["Policy/GAIL Beta"] = beta
    /\ Val(returned.value["Losses/GAIL Discriminator Loss"].vail) # 0

\* C10: every feature group of compute_gradient_magnitude's interpolated
\* input is eps*policy_x + (1 - eps)*expert_x, policy_x from the policy
\* batch and expert_x from the expert batch; the action group included.
C10_InterpolatesExpert ==
    pc = "loss_done" =>
        \A i \in DOMAIN Val(encoder_input) :
            LET x == Val(encoder_input)[i]
                p == Val(mini_batch)[i]
                e == Val(expert_batch)[i]
            IN /\ \E eps \in EpsValues :
                     x[1] = eps * Hidden(p.obs) + (EpsDen - eps) * Hidden(e.obs)
               /\ use_actions =>
                     /\ \E eps \in EpsValues :
                           x[2] = eps * p.action + (EpsDen - eps) * e.action
                     /\ \E eps \in EpsValues :
                           x[3] = eps * p.done + (EpsDen - eps) * e.done

====
